---- MODULE Spec2Model ----
(***************************************************************************)
(* wradlib.ipol: interpolation between point sets (Nearest, Idw, Linear),  *)
(* the NaN-tolerant driver `interpolate` and the polar clutter filler      *)
(* `interpolate_polar`.                                                    *)
(*                                                                         *)
(* Numbers.  A floating point number is a record [k, n, d]: k = "fin" is   *)
(* the rational n/d in lowest terms (d > 0), k = "nan" is not-a-number and *)
(* k = "inf" is +infinity.  Arithmetic on the finite values is exact; the  *)
(* one narrowing the code performs (Idw's float32 output array) is AsF4.   *)
(*                                                                         *)
(* Arrays.  A value array is [ndim, rows]: rows is the sequence along the  *)
(* first axis, each row the flattened trailing axes (one entry for a 1-D   *)
(* array).  Indices are 1-based here, 0-based in the code.                 *)
(*                                                                         *)
(* Coordinates.  A point is a sequence of integers; a coordinate c stands  *)
(* for the real number c * 10^(-uexp).  Distances are kept squared (d2),   *)
(* which orders them as the Euclidean distance does.                       *)
(***************************************************************************)
EXTENDS Integers, Sequences, FiniteSets, TLC

VARIABLES
    pc,     \* where the run is: "ready" (constructed), "first", "probe", "again"
            \* (after an evaluation of that kind); "input" and "done" for a function call
    tie,    \* the spatial index's order among equidistant sources: "low" or "high" index first
    uexp,   \* the coordinate unit is 10^(-uexp)
    ctor,   \* the arguments the interpolator was constructed with: [src, trg]
    ip,     \* the constructed interpolator instance (self)
    args,   \* the arguments of the last call
    ret,    \* what the last call returned: [err, out]
    first   \* the first evaluation of ip: its arguments and what it returned

vars == <<pc, tie, uexp, ctor, ip, args, ret, first>>

----------------------------------------------------------------------------
(* Bounds of the model *)

MaxSrc == 2
MaxTrg == 2
MaxBad == 1
MaxMasked == 1

Coords == {0, 1, 2}
TieOrders == {"low", "high"}

----------------------------------------------------------------------------
(* Numbers *)

Abs(x) == IF x < 0 THEN -x ELSE x

Min2(a, b) == IF a <= b THEN a ELSE b

RECURSIVE Gcd(_, _)
Gcd(a, b) == IF b = 0 THEN a ELSE Gcd(b, a % b)

Lcm(a, b) == (a \div Gcd(a, b)) * b

RECURSIVE Pow(_, _)
Pow(b, e) == IF e = 0 THEN 1 ELSE b * Pow(b, e - 1)

RECURSIVE ISqrtFrom(_, _)
ISqrtFrom(x, r) == IF (r + 1) * (r + 1) > x THEN r ELSE ISqrtFrom(x, r + 1)

ISqrt(x) == ISqrtFrom(x, 0)

NaN == [k |-> "nan", n |-> 0, d |-> 1]

Inf == [k |-> "inf", n |-> 0, d |-> 1]

Fin(n, d) ==
    LET g == Gcd(Abs(n), d)
    IN  [k |-> "fin", n |-> n \div g, d |-> d \div g]

Num(n) == [k |-> "fin", n |-> n, d |-> 1]

isfinite(v) == v.k = "fin"

isnan(v) == v.k = "nan"

(* float32 keeps 24 significant bits *)
F4Bits == 24

RECURSIVE UlpOf(_, _, _)
\* the spacing of float32 numbers around n/d >= 2^F4Bits
UlpOf(n, d, u) == IF n \div (d * u) < Pow(2, F4Bits) THEN u ELSE UlpOf(n, d, 2 * u)

\* n/d rounded to the nearest multiple of u, ties to the even multiple
RoundTo(n, d, u) ==
    LET m == d * u
        q == n \div m
        r == n - q * m
        up == (2 * r > m) \/ (2 * r = m /\ q % 2 = 1)
    IN  (IF up THEN q + 1 ELSE q) * u

\* astype('f4'): magnitudes below 2^24 are kept (the fractions this model forms
\* there are treated as exact in both widths), larger ones lose their low bits
AsF4(v) ==
    IF ~isfinite(v) \/ Abs(v.n) \div v.d < Pow(2, F4Bits) THEN v
    ELSE LET a == Abs(v.n)
             r == RoundTo(a, v.d, UlpOf(a, v.d, 1))
         IN  Num(IF v.n < 0 THEN -r ELSE r)

----------------------------------------------------------------------------
(* Sequences *)

Range(s) == {s[i] : i \in DOMAIN s}

RECURSIVE SumSeq(_)
SumSeq(s) == IF s = <<>> THEN 0 ELSE Head(s) + SumSeq(Tail(s))

RECURSIVE LcmSeq(_)
LcmSeq(s) == IF s = <<>> THEN 1 ELSE Lcm(Head(s), LcmSeq(Tail(s)))

\* the increasing sequence of the members of a set of integers
RECURSIVE SortedSeq(_)
SortedSeq(S) ==
    IF S = {} THEN <<>>
    ELSE LET m == CHOOSE x \in S : \A y \in S : x <= y
         IN  <<m>> \o SortedSeq(S \ {m})

\* np.where(cond)[0]: the indices, ascending, at which cond holds
Where(cond) == SortedSeq({i \in DOMAIN cond : cond[i]})

\* a[ix] for an index array ix
Take(a, ix) == [j \in DOMAIN ix |-> a[ix[j]]]

\* sum_i a[i] * vs[i] / sum_i a[i], for integer weights a[i] >= 0 with a positive
\* sum, in floating point terms: NaN absorbs, 0 * inf is NaN, w * inf is inf
WeightedSum(a, vs) ==
    LET I == DOMAIN a
    IN  IF \E i \in I : isnan(vs[i]) \/ (vs[i].k = "inf" /\ a[i] = 0) THEN NaN
        ELSE IF \E i \in I : vs[i].k = "inf" THEN Inf
        ELSE LET M == LcmSeq([i \in I |-> vs[i].d])
                 A == SumSeq(a)
             IN  Fin(SumSeq([i \in I |-> a[i] * vs[i].n * (M \div vs[i].d)]), A * M)

----------------------------------------------------------------------------
(* Geometry and the spatial index (scipy.spatial.cKDTree, used through query) *)

RECURSIVE Dist2(_, _)
\* squared Euclidean distance of two points of the same dimension
Dist2(a, b) ==
    IF a = <<>> THEN 0
    ELSE (Head(a) - Head(b)) * (Head(a) - Head(b)) + Dist2(Tail(a), Tail(b))

\* a query that finds no further source reports distance inf and index n (here n + 1)
NoDist == [inf |-> TRUE, d2 |-> 0]

FiniteDist(d2) == [inf |-> FALSE, d2 |-> d2]

\* source i is reported before source j for query point t
Before(src, t, i, j) ==
    \/ Dist2(src[i], t) < Dist2(src[j], t)
    \/ /\ Dist2(src[i], t) = Dist2(src[j], t)
       /\ IF tie = "low" THEN i < j ELSE i > j

RECURSIVE NearestOrder(_, _, _, _)
\* up to k members of S, nearest to t first
NearestOrder(src, t, S, k) ==
    IF k = 0 \/ S = {} THEN <<>>
    ELSE LET m == CHOOSE i \in S : \A j \in S \ {i} : Before(src, t, i, j)
         IN  <<m>> \o NearestOrder(src, t, S \ {m}, k - 1)

\* cKDTree(src).query(t, k): k distances, ascending, and the sources' indices
TreeQuery(src, t, k) ==
    LET found == NearestOrder(src, t, DOMAIN src, k)
    IN  [dists |-> [j \in 1..k |-> IF j <= Len(found)
                                   THEN FiniteDist(Dist2(src[found[j]], t))
                                   ELSE NoDist],
         ix    |-> [j \in 1..k |-> IF j <= Len(found) THEN found[j]
                                   ELSE Len(src) + 1]]

----------------------------------------------------------------------------
(* Arrays and results *)

NoArray == [ndim |-> 0, rows |-> <<>>]

\* a 1-D array of values, and a 2-D array of rows
Array1(row) == [ndim |-> 1, rows |-> [i \in DOMAIN row |-> <<row[i]>>]]

Array2(rows) == [ndim |-> 2, rows |-> rows]

Raise(e) == [err |-> e, out |-> NoArray]

Return(a) == [err |-> "none", out |-> a]

\* the number of entries of a row (the product of the trailing axes)
RowSize(vals) == IF vals.rows = <<>> THEN 1 ELSE Len(vals.rows[1])

\* IpolBase._check_shape
CheckShapeFails(self, vals) == Len(vals.rows) # self.numsources

----------------------------------------------------------------------------
(* Coordinate inputs.  A coordinate argument x is [type, ndim, data]: an ndarray *)
(* of shape (N, D) (data: the N points), an ndarray of shape (N,) (data: the N   *)
(* numbers), or a list of D flat arrays of length N (data: the D arrays).        *)
(* ndarrays of three or more dimensions, which line 113 rejects, are not drawn.  *)

NdArray2(pts) == [type |-> "ndarray", ndim |-> 2, data |-> pts]

NdArray1(xs) == [type |-> "ndarray", ndim |-> 1, data |-> xs]

ListOf(arrays) == [type |-> "list", ndim |-> 1, data |-> arrays]

\* len(x): the length of the first axis of an ndarray, the number of items of a list
PyLen(x) == Len(x.data)

\* IpolBase._make_coord_arrays: the points as an array of shape (N, D)
make_coord_arrays(x) ==
    IF x.type = "list"
    THEN [i \in 1..Len(x.data[1]) |-> [d \in 1..Len(x.data) |-> x.data[d][i]]]
    ELSE IF x.ndim = 1 THEN [i \in 1..Len(x.data) |-> <<x.data[i]>>]
    ELSE x.data

----------------------------------------------------------------------------
(* class Nearest *)

Nearest__init__(src0, trg0) ==
    LET src == make_coord_arrays(src0)
        trg == make_coord_arrays(trg0)
    IN
    [kind       |-> "Nearest",
     numtargets |-> Len(trg),
     numsources |-> Len(src),
     tree       |-> src,
     dists      |-> [t \in DOMAIN trg |-> TreeQuery(src, trg[t], 1).dists[1]],
     ix         |-> [t \in DOMAIN trg |-> TreeQuery(src, trg[t], 1).ix[1]],
     src        |-> <<>>,
     trg        |-> <<>>,
     nnearest   |-> 0,
     p          |-> 0]

\* maxdist: [none |-> TRUE] or a distance m in coordinate units
NoMaxdist == [none |-> TRUE, m |-> 0]

Maxdist(m) == [none |-> FALSE, m |-> m]

\* self.dists > maxdist
Exceeds(dist, maxdist) == dist.inf \/ dist.d2 > maxdist.m * maxdist.m

\* NearestOut with every index one too high (wrapping round): vals[self.ix + 1]
NearestOutShifted(self, vals, maxdist) ==
    IF CheckShapeFails(self, vals) THEN Raise("AssertionError")
    ELSE Return([ndim |-> vals.ndim,
                 rows |-> [t \in DOMAIN self.ix |->
                             vals.rows[(self.ix[t] % Len(vals.rows)) + 1]]])

\* vals[self.ix], NaN where self.dists > maxdist
NearestOut(self, vals, maxdist) ==
    IF CheckShapeFails(self, vals) THEN Raise("AssertionError")
    ELSE IF \E t \in DOMAIN self.ix : self.ix[t] > Len(vals.rows) THEN Raise("IndexError")
    ELSE LET out == [t \in DOMAIN self.ix |-> vals.rows[self.ix[t]]]
         IN  IF maxdist.none THEN Return([ndim |-> vals.ndim, rows |-> out])
             ELSE Return([ndim |-> vals.ndim,
                          rows |-> [t \in DOMAIN out |->
                                      [c \in DOMAIN out[t] |->
                                         IF Exceeds(self.dists[t], maxdist)
                                         THEN NaN ELSE out[t][c]]]])

\* Nearest.__call__: the instance after the call, and what the call returns
Nearest__call__(self, vals, maxdist) ==
    [self |-> self, ret |-> NearestOut(self, vals, maxdist)]

----------------------------------------------------------------------------
(* class Idw *)

DefaultNnearest == 4

DefaultP == 2

Idw__init__(src0, trg0, nnearest, p) ==
    LET src == make_coord_arrays(src0)
        trg == make_coord_arrays(trg0)
    IN
    [kind       |-> "Idw",
     numtargets |-> Len(trg),
     numsources |-> Len(src),
     tree       |-> src,
     dists      |-> [t \in DOMAIN trg |-> TreeQuery(src, trg[t], nnearest).dists],
     ix         |-> [t \in DOMAIN trg |-> TreeQuery(src, trg[t], nnearest).ix],
     src        |-> <<>>,
     trg        |-> <<>>,
     nnearest   |-> nnearest,
     p          |-> p]

\* the tolerance 1e-10 is 10^(-TolExp)
TolExp == 10

\* dist < 1e-10, for the distance sqrt(d2) * 10^(-uexp)
NearZero(d2) ==
    IF uexp <= TolExp THEN d2 = 0 ELSE d2 < Pow(10, 2 * (uexp - TolExp))

\* dist ** p from the squared distance (an odd p needs d2 to be a perfect square,
\* which it is for points on a line)
DistPow(d2, p) == IF p % 2 = 0 THEN Pow(d2, p \div 2) ELSE Pow(ISqrt(d2), p)

\* IdwWeights without the inversion: w = dist**p
IdwWeightsDirect(dist, p) ==
    LET a == [i \in DOMAIN dist |-> DistPow(dist[i].d2, p)]
    IN  [num |-> a, den |-> SumSeq(a)]

\* w = 1 / dist**p; w /= sum(w): the weights as fractions num[i] / den
IdwWeights(dist, p) ==
    LET D == [i \in DOMAIN dist |-> DistPow(dist[i].d2, p)]
        L == LcmSeq(D)
        a == [i \in DOMAIN dist |-> L \div D[i]]
    IN  [num |-> a, den |-> SumSeq(a)]

\* CoincidentRow with the last of the neighbours the array holds in the place of
\* the first
CoincidentRowLast(vals, ix) ==
    vals.rows[ix[CHOOSE m \in DOMAIN ix :
                    /\ ix[m] <= Len(vals.rows)
                    /\ \A l \in DOMAIN ix : l > m => ix[l] > Len(vals.rows)]]

\* wz = vals[ix[0]]: the row of a target that coincides with a source
CoincidentRow(vals, ix) == vals.rows[ix[1]]

\* column c of the rows ix of vals
Column(vals, ix, c) == [i \in DOMAIN ix |-> vals.rows[ix[i]][c]]

\* one pass of the loop over the targets: the row written to interpol[j], or the
\* exception the pass raises
IdwRow(self, vals, j) ==
    LET valid == Where([m \in DOMAIN self.dists[j] |-> ~self.dists[j][m].inf])
        dist  == Take(self.dists[j], valid)
        ix    == Take(self.ix[j], valid)
        C     == RowSize(vals)
    IN  IF self.nnearest = 1
        THEN IF ix = <<>> THEN [err |-> "ValueError", row |-> <<>>]
             ELSE IF ix[1] > Len(vals.rows) THEN [err |-> "IndexError", row |-> <<>>]
             ELSE [err |-> "none", row |-> vals.rows[ix[1]]]
        ELSE IF dist = <<>> THEN [err |-> "IndexError", row |-> <<>>]
        ELSE IF NearZero(dist[1].d2)
        THEN IF ix[1] > Len(vals.rows) THEN [err |-> "IndexError", row |-> <<>>]
             ELSE [err |-> "none", row |-> CoincidentRow(vals, ix)]
        ELSE IF \E i \in DOMAIN ix : ix[i] > Len(vals.rows)
             THEN [err |-> "IndexError", row |-> <<>>]
             ELSE LET w == IdwWeights(dist, self.p)
                  IN  [err |-> "none",
                       row |-> [c \in 1..C |-> WeightedSum(w.num, Column(vals, ix, c))]]

IdwOut(self, vals) ==
    LET T    == DOMAIN self.dists
        pass == [j \in T |-> IdwRow(self, vals, j)]
    IN  IF \E j \in T : pass[j].err # "none"
        THEN Raise(pass[CHOOSE j \in T : pass[j].err # "none"
                            /\ \A i \in T : i < j => pass[i].err = "none"].err)
        ELSE Return([ndim |-> vals.ndim,
                     rows |-> [j \in T |-> [c \in DOMAIN pass[j].row |->
                                              AsF4(pass[j].row[c])]]])

\* Idw.__call__ with the loop's filtered dist and ix written back to the instance
Idw__call__InPlace(self, vals) ==
    LET valid(j) == Where([m \in DOMAIN self.dists[j] |-> ~self.dists[j][m].inf])
    IN  [self |-> [self EXCEPT !.dists = [j \in DOMAIN self.dists |->
                                            Take(self.dists[j], valid(j))],
                              !.ix = [j \in DOMAIN self.ix |->
                                         Take(self.ix[j], valid(j))]],
         ret  |-> IdwOut(self, vals)]

\* Idw.__call__: the instance after the call, and what the call returns
Idw__call__(self, vals) == [self |-> self, ret |-> IdwOut(self, vals)]

----------------------------------------------------------------------------
(* scipy.interpolate.LinearNDInterpolator(points, values, fill_value): piecewise *)
(* linear (barycentric) interpolation on the Delaunay simplices of the points;   *)
(* a target in no simplex gets fill_value.  The simplices of points in the plane *)
(* are the triangles whose circumcircle holds no other point; the triangulation  *)
(* (scipy.spatial.Delaunay) rejects points of fewer than two dimensions and      *)
(* points that span no triangle.                                                 *)

\* twice the signed area of the triangle a, b, c (positive: counter-clockwise)
Orient(a, b, c) ==
    (b[1] - a[1]) * (c[2] - a[2]) - (b[2] - a[2]) * (c[1] - a[1])

\* positive when q lies strictly inside the circle through a, b, c (counter-clockwise)
InCircle(a, b, c, q) ==
    LET ax == a[1] - q[1]
        ay == a[2] - q[2]
        bx == b[1] - q[1]
        by == b[2] - q[2]
        cx == c[1] - q[1]
        cy == c[2] - q[2]
        al == ax * ax + ay * ay
        bl == bx * bx + by * by
        cl == cx * cx + cy * cy
    IN  ax * (by * cl - bl * cy) - ay * (bx * cl - bl * cx) + al * (bx * cy - by * cx)

\* the Delaunay simplices of pts, as sequences of indices
Simplices(pts) ==
    LET I == DOMAIN pts
    IN  {e \in I \X I \X I :
            /\ e[1] < e[2] /\ e[1] < e[3] /\ e[2] # e[3]
            /\ Orient(pts[e[1]], pts[e[2]], pts[e[3]]) > 0
            /\ \A m \in I : InCircle(pts[e[1]], pts[e[2]], pts[e[3]], pts[m]) <= 0}

\* the exception of Delaunay(pts), "none" when it succeeds
DelaunayError(pts) ==
    IF pts = <<>> \/ Len(pts[1]) < 2 THEN "ValueError"
    ELSE IF Simplices(pts) = {} THEN "QhullError"
    ELSE "none"

\* the barycentric coordinates of t in simplex e, each times the simplex's size
Barycentric(pts, e, t) ==
    <<Orient(t, pts[e[2]], pts[e[3]]),
      Orient(pts[e[1]], t, pts[e[3]]),
      Orient(pts[e[1]], pts[e[2]], t)>>

Contains(pts, e, t) == \A i \in DOMAIN e : Barycentric(pts, e, t)[i] >= 0

\* e is found before f when both hold the target
SimplexBefore(e, f) ==
    LET i == CHOOSE m \in DOMAIN e : e[m] # f[m] /\ \A l \in 1..(m - 1) : e[l] = f[l]
    IN  IF tie = "low" THEN e[i] < f[i] ELSE e[i] > f[i]

\* LinearNDInterpolator(src, vals, fill_value)(trg), as rows
LinearND(src, vals, fill_value, trg) ==
    LET S == Simplices(src)
        C == RowSize(vals)
        At(t) ==
            LET hold == {e \in S : Contains(src, e, t)}
            IN  IF hold = {} THEN [c \in 1..C |-> fill_value]
                ELSE LET e == CHOOSE x \in hold : \A y \in hold \ {x} : SimplexBefore(x, y)
                         b == Barycentric(src, e, t)
                     IN  [c \in 1..C |-> WeightedSum(b, Column(vals, e, c))]
    IN  [t \in DOMAIN trg |-> At(trg[t])]

----------------------------------------------------------------------------
(* class Linear *)

Linear__init__(src, trg) ==
    [kind       |-> "Linear",
     numtargets |-> PyLen(trg),
     numsources |-> PyLen(src),
     tree       |-> <<>>,
     dists      |-> <<>>,
     ix         |-> <<>>,
     src        |-> make_coord_arrays(src),
     trg        |-> make_coord_arrays(trg),
     nnearest   |-> 0,
     p          |-> 0]

\* what LinearNDInterpolator(pts, vals) raises: it takes as many values as points
LinearNDError(pts, vals) ==
    IF Len(vals.rows) # Len(pts) THEN "ValueError" ELSE DelaunayError(pts)

LinearOut(self, vals, fill_value) ==
    IF CheckShapeFails(self, vals) THEN Raise("AssertionError")
    ELSE IF LinearNDError(self.src, vals) # "none"
    THEN Raise(LinearNDError(self.src, vals))
    ELSE Return([ndim |-> vals.ndim,
                 rows |-> LinearND(self.src, vals, fill_value, self.trg)])

\* Linear.__call__: the instance after the call, and what the call returns
Linear__call__(self, vals, fill_value) ==
    [self |-> self, ret |-> LinearOut(self, vals, fill_value)]

----------------------------------------------------------------------------
(* interpolate(src, trg, vals, Interpolator, *args, **kwargs) *)

\* the Interpolator class with its arguments
Strategy(cls, nnearest, p) == [cls |-> cls, nnearest |-> nnearest, p |-> p]

UseNearest == Strategy("Nearest", 0, 0)

UseLinear == Strategy("Linear", 0, 0)

\* Interpolator(src, trg, *args, **kwargs), src and trg ndarrays of shape (N, D)
Construct(strat, src, trg) ==
    CASE strat.cls = "Nearest" -> Nearest__init__(NdArray2(src), NdArray2(trg))
      [] strat.cls = "Idw" ->
            Idw__init__(NdArray2(src), NdArray2(trg), strat.nnearest, strat.p)
      [] OTHER -> Linear__init__(NdArray2(src), NdArray2(trg))

\* ip(vals): the call with its default options
Evaluate(self, vals) ==
    CASE self.kind = "Nearest" -> Nearest__call__(self, vals, NoMaxdist).ret
      [] self.kind = "Idw" -> Idw__call__(self, vals).ret
      [] OTHER -> Linear__call__(self, vals, NaN).ret

\* ix_valid with np.isnan in the place of np.isfinite
ix_validNotNaN(vals) == Where([m \in DOMAIN vals.rows |-> ~isnan(vals.rows[m][1])])

\* ix_valid = np.where(np.isfinite(vals))[0]
ix_valid(vals) == Where([m \in DOMAIN vals.rows |-> isfinite(vals.rows[m][1])])

\* the branch for vals.ndim == 1
Interpolate1(src, trg, vals, strat) ==
    LET ix == ix_valid(vals)
        self == Construct(strat, Take(src, ix), trg)
    IN  Evaluate(self, [ndim |-> 1, rows |-> Take(vals.rows, ix)])

\* result[ix_broken_targets, i] = tmp.ravel()
Patch(result, broken, i, tmp) ==
    [result EXCEPT !.rows =
        [t \in DOMAIN result.rows |->
            IF \E m \in DOMAIN broken : broken[m] = t
            THEN [result.rows[t] EXCEPT ![i] =
                    tmp.rows[CHOOSE m \in DOMAIN broken : broken[m] = t][1]]
            ELSE result.rows[t]]]

RECURSIVE FixColumns(_, _, _, _, _, _, _)
\* the loop over the columns in which the first pass left a NaN; nan_in_result
\* is taken from the first pass, result is patched column by column
FixColumns(src, trg, vals, strat, nan_in_result, result, cols) ==
    IF cols = <<>> THEN Return(result)
    ELSE LET i == Head(cols)
             ix_good == Where([m \in DOMAIN vals.rows |-> isfinite(vals.rows[m][i])])
             ix_broken_targets == Where([m \in DOMAIN nan_in_result.rows |->
                                           isnan(nan_in_result.rows[m][i])])
             self == Construct(strat, Take(src, ix_good), Take(trg, ix_broken_targets))
             tmp == Evaluate(self, [ndim |-> 2,
                                    rows |-> [m \in DOMAIN ix_good |->
                                                <<vals.rows[ix_good[m]][i]>>]])
         IN  IF ix_good = <<>> THEN Raise("ValueError")
             ELSE IF tmp.err # "none" THEN tmp
             ELSE FixColumns(src, trg, vals, strat, nan_in_result,
                             Patch(result, ix_broken_targets, i, tmp.out), Tail(cols))

\* the branch for vals.ndim == 2
Interpolate2(src, trg, vals, strat) ==
    LET result == Evaluate(Construct(strat, src, trg), vals)
    IN  IF result.err # "none" THEN result
        ELSE FixColumns(src, trg, vals, strat, result.out, result.out,
                        SortedSeq({c \in 1..RowSize(vals) :
                                     \E t \in DOMAIN result.out.rows :
                                         isnan(result.out.rows[t][c])}))

\* the branch for vals.ndim >= 3: the test for NaN, then either the exception or
\* the use of ix_valid, a name only the 1-D branch assigns
InterpolateN(src, trg, vals, strat) ==
    IF ~\E i \in DOMAIN vals.rows : \E c \in DOMAIN vals.rows[i] : isnan(vals.rows[i][c])
    THEN Raise("Exception")
    ELSE Raise("UnboundLocalError")

interpolate(src, trg, vals, strat) ==
    CASE vals.ndim = 1 -> Interpolate1(src, trg, vals, strat)
      [] vals.ndim = 2 -> Interpolate2(src, trg, vals, strat)
      [] OTHER -> InterpolateN(src, trg, vals, strat)

----------------------------------------------------------------------------
(* interpolate_polar(data, mask, Interpolator) *)
(* data is [rows, own]: the 2-D array (azimuth, range) and, for a masked      *)
(* array, the mask it carries; a mask is [given, m], m a boolean matrix.      *)

NoMask == [given |-> FALSE, m |-> <<>>]

GivenMask(m) == [given |-> TRUE, m |-> m]

\* np.any(mask)
AnyMask(mask) ==
    mask.given /\ \E a \in DOMAIN mask.m : \E r \in DOMAIN mask.m[a] : mask.m[a][r]

\* np.ma.getmaskarray(data): the mask data carries, all False when it carries none
GetMaskArray(data) ==
    IF data.own.given THEN data.own.m
    ELSE [a \in DOMAIN data.rows |-> [r \in DOMAIN data.rows[a] |-> FALSE]]

\* ravel(): row by row
Ravel(m) ==
    LET nr == Len(m[1])
    IN  [f \in 1..(Len(m) * nr) |-> m[((f - 1) \div nr) + 1][((f - 1) % nr) + 1]]

\* reshape(data.shape[0], data.shape[1])
Reshape(flat, na, nr) == [a \in 1..na |-> [r \in 1..nr |-> flat[(a - 1) * nr + r]]]

\* cos and sin of a whole number of quarter turns
CosQ(q) == CASE q % 4 = 0 -> 1 [] q % 4 = 2 -> -1 [] OTHER -> 0

SinQ(q) == CASE q % 4 = 1 -> 1 [] q % 4 = 3 -> -1 [] OTHER -> 0

\* (binx, biny) of flat bin f, doubled: range (r + 0.5) at angle a * 360 / na, for
\* na in {1, 2, 4} azimuths (a whole number of quarter turns)
BinPoint(f, na, nr) ==
    LET a == (f - 1) \div nr
        r == (f - 1) % nr
        q == a * (4 \div na)
    IN  <<CosQ(q) * (2 * r + 1), SinQ(q) * (2 * r + 1)>>

RECURSIVE Tuple(_, _)
\* np.array: the entries f[1], ..., f[n], held as an array
Tuple(f, n) == IF n = 0 THEN <<>> ELSE Append(Tuple(f, n - 1), f[n])

\* flat[ix] = filling
Fill(flat, ix, filling) ==
    Tuple([f \in DOMAIN flat |->
             IF \E m \in DOMAIN ix : ix[m] = f
             THEN filling.rows[CHOOSE m \in DOMAIN ix : ix[m] = f][1]
             ELSE flat[f]],
          Len(flat))

\* the arrays of lines 533-550; filled_data is data.copy().ravel()
PolarArrays(data, mask) ==
    LET na == Len(data.rows)
        nr == Len(data.rows[1])
        mflat == Ravel(IF ~AnyMask(mask) THEN GetMaskArray(data) ELSE mask.m)
        flat == Ravel(data.rows)
        clutter_indices == Where(mflat)
        kept == Where([f \in DOMAIN mflat |-> ~mflat[f]])
    IN  [na              |-> na,
         nr              |-> nr,
         clutter_indices |-> clutter_indices,
         src_coord       |-> Tuple([m \in DOMAIN kept |-> BinPoint(kept[m], na, nr)],
                                   Len(kept)),
         trg_coord       |-> Tuple([m \in DOMAIN clutter_indices |->
                                      BinPoint(clutter_indices[m], na, nr)],
                                   Len(clutter_indices)),
         values_list     |-> [ndim |-> 1,
                              rows |-> Tuple([m \in DOMAIN kept |-> <<flat[kept[m]]>>],
                                             Len(kept))],
         filled_data     |-> Tuple(flat, na * nr)]

\* line 560: filled_data[np.where(np.isnan(filled_data))] = filling, and the return
FillNaN(filling, filled_data, nans, a) ==
    IF filling.err # "none" THEN filling
    ELSE Return([ndim |-> 2,
                 rows |-> Reshape(Fill(filled_data, nans, filling.out), a.na, a.nr)])

\* lines 557-559: the bins that are still NaN are interpolated by Nearest.
\* (CHOOSE r \in {F(x) : x \in {e}} : TRUE is F(e), with e evaluated once.)
StillNaN(filled_data, nans, a) ==
    IF nans = <<>> THEN Return([ndim |-> 2, rows |-> Reshape(filled_data, a.na, a.nr)])
    ELSE CHOOSE r \in
             {FillNaN(filling, filled_data, nans, a) :
                  filling \in {interpolate(a.src_coord,
                                           [m \in DOMAIN nans |-> BinPoint(nans[m], a.na, a.nr)],
                                           a.values_list, UseNearest)}} : TRUE

\* line 554: filled_data[clutter_indices] = filling
FillClutter(filling, a) ==
    IF filling.err # "none" THEN filling
    ELSE CHOOSE r \in
             {StillNaN(filled_data,
                       Where([f \in DOMAIN filled_data |-> isnan(filled_data[f])]), a) :
                  filled_data \in {Fill(a.filled_data, a.clutter_indices, filling.out)}} : TRUE

\* line 552: filling = interpolate(src_coord, trg_coord, values_list, Interpolator)
InterpolateClutter(a, strat) ==
    CHOOSE r \in
        {FillClutter(filling, a) :
             filling \in {interpolate(a.src_coord, a.trg_coord, a.values_list, strat)}} : TRUE

\* what the function returns, or the exception it raises
PolarFill(data, mask, strat) ==
    CHOOSE r \in {InterpolateClutter(a, strat) : a \in {PolarArrays(data, mask)}} : TRUE

\* interpolate_polar working on data itself, not on data.copy()
interpolate_polarInPlace(data, mask, strat) ==
    LET r == PolarFill(data, mask, strat)
    IN  [data |-> IF r.err = "none" THEN [data EXCEPT !.rows = r.out.rows] ELSE data,
         ret  |-> r]

\* interpolate_polar: data after the call, and what the call returns
interpolate_polar(data, mask, strat) ==
    [data |-> data, ret |-> PolarFill(data, mask, strat)]

----------------------------------------------------------------------------
(* Inputs *)

\* the points of a line, as (N, 1) coordinate arrays of N points
LinePoints(n) == [1..n -> {<<c>> : c \in Coords}]

SrcSets == UNION {LinePoints(n) : n \in 1..MaxSrc}

\* targets are evaluated one by one, each by itself: they are drawn in increasing order
TrgSets ==
    {trg \in UNION {LinePoints(n) : n \in 1..MaxTrg} :
        \A i \in DOMAIN trg : i > 1 => trg[i - 1][1] < trg[i][1]}

RECURSIVE Perms(_)
\* the orders in which the members of S can be listed
Perms(S) ==
    IF S = {} THEN {<<>>}
    ELSE UNION {{<<x>> \o q : q \in Perms(S \ {x})} : x \in S}

\* points of the plane for Linear: two or three corners of a triangle, in any
\* order, as sources; targets on the diagonal (a corner, the middle of the far
\* edge, a point outside), in increasing order
PlaneSrcSets ==
    UNION {Perms(S) : S \in {x \in SUBSET {<<0, 0>>, <<2, 0>>, <<0, 2>>} : Cardinality(x) >= 2}}

PlaneTrgSets ==
    {[i \in DOMAIN trg |-> <<trg[i][1], trg[i][1]>>] : trg \in TrgSets}

\* the least integer float32 cannot hold: 2^24 + 1
BigVal == Num(Pow(2, F4Bits) + 1)

\* the value given to source i in column c: no two sources share a value, so
\* that an output tells which source it came from
Tag(i, c) == Num(100 * (i - 1) + 10 * (c - 1))

\* the sequences of the given length whose entry i is Tag(i, c) or NaN
TagOrNaN(len, c) ==
    {[i \in 1..len |-> IF i \in bad THEN NaN ELSE Tag(i, c)] : bad \in SUBSET (1..len)}

\* 1-D value arrays of the given length: each entry the source's tag or NaN, and
\* the array of BigVal
Arrays1(len) ==
    {Array1(r) : r \in TagOrNaN(len, 1) \cup {[i \in 1..len |-> BigVal]}}

\* 2-D value arrays of two columns: column 1 tags, or NaN at the first source;
\* column 2 tags
Arrays2(len) ==
    {Array2([i \in 1..len |-> <<IF i \in bad THEN NaN ELSE Tag(i, 1), Tag(i, 2)>>]) :
        bad \in {{}, {1}}}

\* arrays whose length is not n: one row short, one row long
WrongArrays(n) ==
    {Array1([i \in 1..len |-> Tag(i, 1)]) : len \in {n - 1, n + 1} \ {0}}

\* value arrays for an interpolator of n sources
CallVals(n) == Arrays1(n) \cup Arrays2(n) \cup WrongArrays(n)

\* the array evaluated between two evaluations of the first one
ProbeVals(n) == {Array1([i \in 1..n |-> Num(1)])}

\* Idw's parameters <<nnearest, p>>
IdwParams == {<<1, 2>>, <<2, 1>>, <<2, 2>>, <<3, 2>>}

\* coordinate units: 1, and 1e-11 (below the tolerance of Idw)
UnitExps == {0, 11}

\* the threshold works on 1-D value arrays (np.where broadcasts self.dists along
\* the last axis)
Maxdists(vals) ==
    IF vals.ndim = 1 THEN {NoMaxdist, Maxdist(0), Maxdist(1)} ELSE {NoMaxdist}

FillValues == {NaN, Num(0)}

Args(vals, maxdist, fill_value) ==
    [vals |-> vals, maxdist |-> maxdist, fill_value |-> fill_value]

NoCall == Args(NoArray, NoMaxdist, NaN)

NoReturn == [err |-> "nocall", out |-> NoArray]

NoFirst == [set |-> FALSE, args |-> NoCall, ret |-> NoReturn]

----------------------------------------------------------------------------
(* Spec: an interpolator is constructed once and evaluated any number of times. *)
(* The first evaluation draws any arguments, the second evaluates a probe      *)
(* array, the third has the arguments of the first again.                       *)

Init ==
    /\ pc = "ready"
    /\ tie \in TieOrders
    /\ uexp \in UnitExps
    /\ \/ \E src \in SrcSets, trg \in TrgSets :
             /\ ctor = [src |-> src, trg |-> trg]
             /\ \/ /\ uexp = 0
                   /\ ip = Nearest__init__(NdArray2(src), NdArray2(trg))
                \/ \E kp \in IdwParams :
                      /\ uexp # 0 => kp = <<2, DefaultP>>
                      /\ ip = Idw__init__(NdArray2(src), NdArray2(trg), kp[1], kp[2])
       \/ \E src \in PlaneSrcSets, trg \in PlaneTrgSets :
             /\ uexp = 0
             /\ ctor = [src |-> src, trg |-> trg]
             /\ ip = Linear__init__(NdArray2(src), NdArray2(trg))
    /\ args = NoCall
    /\ ret = NoReturn
    /\ first = NoFirst

\* the arguments an evaluation may be given
CallArgs ==
    IF pc = "first" THEN {Args(v, NoMaxdist, NaN) : v \in ProbeVals(ip.numsources)}
    ELSE IF pc = "probe" THEN {first.args}
    ELSE {Args(v, m, f) : <<v, m, f>> \in
            {x \in CallVals(ip.numsources) \X {NoMaxdist, Maxdist(0), Maxdist(1)} \X FillValues :
                /\ x[2] \in Maxdists(x[1])
                /\ ip.kind # "Nearest" => x[2] = NoMaxdist
                /\ ip.kind # "Linear" => x[3] = NaN}}

\* the bookkeeping of an evaluation with arguments a that left r = [self, ret]
Called(a, r) ==
    /\ args' = a
    /\ ip' = r.self
    /\ ret' = r.ret
    /\ first' = IF first.set THEN first ELSE [set |-> TRUE, args |-> a, ret |-> r.ret]
    /\ pc' = CASE pc = "ready" -> "first" [] pc = "first" -> "probe" [] OTHER -> "again"
    /\ UNCHANGED <<tie, uexp, ctor>>

CallNearest ==
    /\ pc \in {"ready", "first", "probe"}
    /\ ip.kind = "Nearest"
    /\ \E a \in CallArgs : Called(a, Nearest__call__(ip, a.vals, a.maxdist))

CallIdw ==
    /\ pc \in {"ready", "first", "probe"}
    /\ ip.kind = "Idw"
    /\ \E a \in CallArgs : Called(a, Idw__call__(ip, a.vals))

CallLinear ==
    /\ pc \in {"ready", "first", "probe"}
    /\ ip.kind = "Linear"
    /\ \E a \in CallArgs : Called(a, Linear__call__(ip, a.vals, a.fill_value))

Next == CallNearest \/ CallIdw \/ CallLinear

Spec == Init /\ [][Next]_vars

----------------------------------------------------------------------------
(* SpecInterp: interpolate is called once on drawn arguments *)

\* source points with pairwise different coordinates, in any order
DistinctSrcSets ==
    UNION {Perms({<<c>> : c \in S}) : S \in SUBSET Coords \ {{}}}

\* the arrays of the given shape whose entries are the tags but for at most
\* MaxBad entries, which are NaN or inf
BadChoices(len, ncols) ==
    {b \in [(1..len) \X (1..ncols) -> {"tag", "nan", "inf"}] :
        Cardinality({e \in (1..len) \X (1..ncols) : b[e] # "tag"}) <= MaxBad}

Entry(kind, i, c) ==
    CASE kind = "nan" -> NaN
      [] kind = "inf" -> Inf
      [] OTHER -> Tag(i, c) 

Rows(b, len, ncols) ==
    [i \in 1..len |-> [c \in 1..ncols |-> Entry(b[<<i, c>>], i, c)]]

\* 3-D arrays of shape (len, 2, 1): the tags, or NaN or inf at the first entry
Arrays3(len) ==
    {[ndim |-> 3,
      rows |-> [i \in 1..len |-> [c \in 1..2 |->
                  IF i = 1 /\ c = 1 THEN Entry(k, i, c) ELSE Tag(i, c)]]] :
        k \in {"tag", "nan", "inf"}}

\* the value arrays for n sources: 1-D, 2-D of two columns, 3-D
DriverVals(n) ==
    {[ndim |-> 1, rows |-> Rows(b, n, 1)] : b \in BadChoices(n, 1)}
        \cup {[ndim |-> 2, rows |-> Rows(b, n, 2)] : b \in BadChoices(n, 2)}
        \cup Arrays3(n)

Strategies ==
    {UseNearest, Strategy("Idw", 1, DefaultP), Strategy("Idw", 2, 1),
     Strategy("Idw", 2, DefaultP), UseLinear}

NoCtor == [src |-> <<>>, trg |-> <<>>]

\* the instance variable while no instance is under study
NoInstance == Nearest__init__(NdArray2(<<>>), NdArray2(<<>>))

InitInterp ==
    /\ pc = "input"
    /\ tie \in TieOrders
    /\ uexp = 0
    /\ \E src \in DistinctSrcSets, trg \in TrgSets, strat \in Strategies :
          \E vals \in DriverVals(Len(src)) :
              args = [src |-> src, trg |-> trg, vals |-> vals, strat |-> strat]
    /\ ret = NoReturn
    /\ ctor = NoCtor
    /\ ip = NoInstance
    /\ first = NoFirst

CallInterpolate ==
    /\ pc = "input"
    /\ pc' = "done"
    /\ ret' = interpolate(args.src, args.trg, args.vals, args.strat)
    /\ UNCHANGED <<tie, uexp, ctor, ip, args, first>>

SpecInterp == InitInterp /\ [][CallInterpolate]_vars

----------------------------------------------------------------------------
(* SpecPolar: interpolate_polar is called once on a drawn field *)

\* (azimuths, ranges); the bins' coordinates are exact for 1, 2 and 4 azimuths
Shapes == {<<2, 1>>, <<2, 2>>, <<4, 2>>}

\* the fields of a shape: every bin its tag, but for at most MaxBad bins that
\* all hold NaN or all hold inf
Fields(na, nr) ==
    {Reshape([f \in 1..(na * nr) |-> IF f \in bad THEN Entry(k, f, 1) ELSE Tag(f, 1)],
             na, nr) :
        <<bad, k>> \in {x \in (SUBSET (1..(na * nr))) \X {"nan", "inf"} :
                          /\ Cardinality(x[1]) <= MaxBad
                          /\ x[1] = {} => x[2] = "nan"}}

\* the masks of a shape: at most MaxMasked bins masked, or all bins but one
Masks(na, nr) ==
    {Reshape([f \in 1..(na * nr) |-> f \in S], na, nr) :
        S \in {x \in SUBSET (1..(na * nr)) :
                 Cardinality(x) <= MaxMasked \/ Cardinality(x) = na * nr - 1}}

AllFalse(na, nr) == [a \in 1..na |-> [r \in 1..nr |-> FALSE]]

\* how the mask reaches the function: none at all; explicit; one bin masked in
\* the mask the field carries, with no explicit mask or an all-False one
MaskInputs(na, nr) ==
    {[mask |-> NoMask, own |-> NoMask]}
        \cup {[mask |-> GivenMask(m), own |-> NoMask] : m \in Masks(na, nr)}
        \cup {[mask |-> x, own |-> GivenMask(m)] :
                <<x, m>> \in {NoMask, GivenMask(AllFalse(na, nr))} \X
                             {y \in Masks(na, nr) :
                                Cardinality({f \in 1..(na * nr) : Ravel(y)[f]}) = 1}}

PolarStrategies == {UseNearest, Strategy("Idw", DefaultNnearest, DefaultP), UseLinear}

InitPolar ==
    /\ pc = "input"
    /\ tie \in TieOrders
    /\ uexp = 0
    /\ \E shape \in Shapes, strat \in PolarStrategies :
          \E rows \in Fields(shape[1], shape[2]), mi \in MaskInputs(shape[1], shape[2]) :
              args = [data |-> [rows |-> rows, own |-> mi.own],
                      mask |-> mi.mask,
                      strat |-> strat]
    /\ ret = NoReturn
    /\ ctor = NoCtor
    /\ ip = NoInstance
    /\ first = NoFirst

CallInterpolatePolar ==
    /\ pc = "input"
    /\ pc' = "done"
    /\ LET r == interpolate_polar(args.data, args.mask, args.strat)
       IN  /\ args' = [args EXCEPT !.data = r.data]
           /\ ret' = r.ret
    /\ UNCHANGED <<tie, uexp, ctor, ip, first>>

SpecPolar == InitPolar /\ [][CallInterpolatePolar]_vars

----------------------------------------------------------------------------
(* SpecForms: an interpolator of each class is constructed from coordinates   *)
(* given in each of the forms _make_coord_arrays takes, and evaluated once.   *)

\* the forms in which points of ndim dimensions can be handed over
Forms(ndim) == IF ndim = 1 THEN {"array2", "array1", "list"} ELSE {"array2", "list"}

\* the points pts in the given form
InForm(form, pts) ==
    CASE form = "array2" -> NdArray2(pts)
      [] form = "array1" -> NdArray1([i \in DOMAIN pts |-> pts[i][1]])
      [] OTHER -> ListOf([d \in 1..Len(pts[1]) |-> [i \in DOMAIN pts |-> pts[i][d]]])

\* the classes, with the parameters Idw is constructed with
FormStrategies == {UseNearest, Strategy("Idw", 2, DefaultP), UseLinear}

\* Interpolator(src, trg, *args, **kwargs), src and trg as they are handed over
ConstructRaw(strat, src, trg) ==
    CASE strat.cls = "Nearest" -> Nearest__init__(src, trg)
      [] strat.cls = "Idw" -> Idw__init__(src, trg, strat.nnearest, strat.p)
      [] OTHER -> Linear__init__(src, trg)

\* value arrays of one or two dimensions with n rows
FormVals(n) ==
    {Array1([i \in 1..n |-> Tag(i, 1)]),
     Array2([i \in 1..n |-> <<Tag(i, 1), Tag(i, 2)>>])}

InitForms ==
    /\ pc = "ready"
    /\ tie \in TieOrders
    /\ uexp = 0
    /\ \E strat \in FormStrategies :
          \/ \E src \in SrcSets, trg \in TrgSets, form \in Forms(1) :
                /\ ctor = [src |-> InForm(form, src), trg |-> InForm(form, trg)]
                /\ ip = ConstructRaw(strat, ctor.src, ctor.trg)
          \/ \E src \in PlaneSrcSets, trg \in PlaneTrgSets, form \in Forms(2) :
                /\ ctor = [src |-> InForm(form, src), trg |-> InForm(form, trg)]
                /\ ip = ConstructRaw(strat, ctor.src, ctor.trg)
    /\ args = NoCall
    /\ ret = NoReturn
    /\ first = NoFirst

\* ip(vals) with a value array of one to MaxSrc + 1 rows
CallForm ==
    /\ pc = "ready"
    /\ \E n \in 1..(MaxSrc + 1) : \E v \in FormVals(n) :
          LET r == CASE ip.kind = "Nearest" -> Nearest__call__(ip, v, NoMaxdist)
                     [] ip.kind = "Idw" -> Idw__call__(ip, v)
                     [] OTHER -> Linear__call__(ip, v, NaN)
          IN  Called(Args(v, NoMaxdist, NaN), r)

SpecForms == InitForms /\ [][CallForm]_vars

----------------------------------------------------------------------------
(* Properties of the interpolators (Spec) *)

\* an evaluation happened, with one value row per source
Evaluated(kind) ==
    /\ pc \in {"first", "probe", "again"}
    /\ ip.kind = kind
    /\ Len(args.vals.rows) = Len(ctor.src)

\* source i is at least as near to target t as every other source
IsNearest(i, t) ==
    \A j \in DOMAIN ctor.src :
        Dist2(ctor.src[i], ctor.trg[t]) <= Dist2(ctor.src[j], ctor.trg[t])

\* target t has exactly the coordinates of source i
Coincide(i, t) == ctor.src[i] = ctor.trg[t]

\* C1: Nearest, evaluated without a maximum distance on an array of one row per
\* source, returns for each target the value row of a source whose distance to
\* the target is minimal among all sources.
C1_NearestReturnsNearestRow ==
    (Evaluated("Nearest") /\ args.maxdist.none) =>
        /\ ret.err = "none"
        /\ DOMAIN ret.out.rows = DOMAIN ctor.trg
        /\ \A t \in DOMAIN ctor.trg :
              \E i \in DOMAIN ctor.src :
                  IsNearest(i, t) /\ ret.out.rows[t] = args.vals.rows[i]

\* a 2-D evaluation of Nearest where some source is farther from a target than another
C1_Witness ==
    /\ Evaluated("Nearest")
    /\ args.maxdist.none
    /\ args.vals.ndim = 2
    /\ ret.err = "none"
    /\ \E t \in DOMAIN ctor.trg : \E i \in DOMAIN ctor.src : ~IsNearest(i, t)

\* C2: evaluating an Idw interpolator with a value array whose length differs
\* from the source count fails with a shape error and returns no array.
C2_IdwRejectsWrongLength ==
    (pc \in {"first", "probe", "again"} /\ ip.kind = "Idw"
        /\ Len(args.vals.rows) # ip.numsources) =>
        ret.err = "AssertionError" /\ ret.out = NoArray

RowAsF4(row) == [c \in DOMAIN row |-> AsF4(row[c])]

----------------------------------------------------------------------------
(* Inverse distance weights, computed from the constructor's arguments *)

\* the sets of min(k, n) sources that are the k nearest of target t
NeighbourSets(t, k) ==
    {R \in SUBSET (DOMAIN ctor.src) :
        /\ Cardinality(R) = Min2(k, Len(ctor.src))
        /\ \A i \in R : \A j \in DOMAIN ctor.src \ R :
              Dist2(ctor.src[i], ctor.trg[t]) <= Dist2(ctor.src[j], ctor.trg[t])}

RECURSIVE Product(_, _)
\* the product of f over the set S
Product(f, S) ==
    IF S = {} THEN 1
    ELSE LET x == CHOOSE y \in S : TRUE IN f[x] * Product(f, S \ {x})

\* the weights d_i^(-p) / sum_j d_j^(-p) over R, times the common denominator
\* prod_j d_j^p: the weight of i is the product of the other d_j^p
InverseWeights(R, t, p) ==
    LET D == [i \in R |-> DistPow(Dist2(ctor.src[i], ctor.trg[t]), p)]
    IN  [i \in R |-> Product(D, R \ {i})]

\* sum_i w_i * value_i over R, column by column
WeightedRow(R, t, p) ==
    LET order == SortedSeq(R)
        w == InverseWeights(R, t, p)
    IN  [c \in 1..RowSize(args.vals) |->
           WeightedSum([m \in DOMAIN order |-> w[order[m]]],
                       Column(args.vals, order, c))]

\* the weights Idw.__call__ computes for target t are non-negative, sum to 1
\* and are the inverse distance weights over R
WeightsAre(R, t) ==
    LET valid == Where([m \in DOMAIN ip.dists[t] |-> ~ip.dists[t][m].inf])
        w == IdwWeights(Take(ip.dists[t], valid), ip.p)
        ix == Take(ip.ix[t], valid)
        iw == InverseWeights(R, t, ip.p)
        total == SumSeq([m \in DOMAIN ix |-> iw[ix[m]]])
    IN  /\ Range(ix) = R
        /\ w.den > 0
        /\ SumSeq(w.num) = w.den
        /\ \A m \in DOMAIN ix : w.num[m] >= 0 /\ w.num[m] * total = iw[ix[m]] * w.den

C10_EvaluationKeepsInstance ==
    [][/\ ip' = ip
       /\ (first.set /\ args' = first.args) => ret' = first.ret]_vars

\* the first evaluation's arguments were evaluated again, after a probe
C10_Witness ==
    /\ pc = "again"
    /\ args = first.args
    /\ ret = first.ret
    /\ ret.err = "none"

----------------------------------------------------------------------------
(* Properties of interpolate (SpecInterp) *)

Interpolated(ndim) == pc = "done" /\ args.vals.ndim = ndim

\* the value array has an entry that is NaN or inf
HasNonFinite(vals) ==
    \E i \in DOMAIN vals.rows : \E c \in DOMAIN vals.rows[i] : ~isfinite(vals.rows[i][c])

\* C3, as claimed: on a value array of rank 3 or more interpolate fails with the
\* unsupported-rank error exactly when the array has a non-finite entry, and
\* otherwise returns what one interpolator on all the sources returns for the
\* whole array.
C3_RankThreeNeedsFiniteValues ==
    Interpolated(3) =>
        IF HasNonFinite(args.vals) THEN ret.err = "Exception"
        ELSE ret = Evaluate(Construct(args.strat, args.src, args.trg), args.vals)

\* the indices of the sources whose value in column c is finite, ascending
FiniteSources(vals, c) ==
    SelectSeq([i \in DOMAIN vals.rows |-> i], LAMBDA i : isfinite(vals.rows[i][c]))

\* what the strategy returns when it is built on the sources whose value in
\* column c is finite and the targets ts, and evaluated on those values
OnFiniteSources(c, ts, ndim) ==
    LET keep == FiniteSources(args.vals, c)
    IN  Evaluate(Construct(args.strat,
                           [m \in DOMAIN keep |-> args.src[keep[m]]],
                           [m \in DOMAIN ts |-> args.trg[ts[m]]]),
                 [ndim |-> ndim,
                  rows |-> [m \in DOMAIN keep |-> <<args.vals.rows[keep[m]][c]>>]])

\* C5, as claimed: of a 2-D value array, the entries that the first pass (one
\* interpolator on all the sources) leaves finite are returned as they are, and
\* an entry (t, c) the first pass leaves non-finite is returned as the strategy
\* gives it for target t when built on the sources whose value in column c is
\* finite.
C5_NonFiniteEntriesRecomputed ==
    (Interpolated(2) /\ ret.err = "none") =>
        LET pass == Evaluate(Construct(args.strat, args.src, args.trg), args.vals)
        IN  /\ pass.err = "none"
            /\ \A t \in DOMAIN args.trg : \A c \in 1..RowSize(args.vals) :
                  IF isfinite(pass.out.rows[t][c])
                  THEN ret.out.rows[t][c] = pass.out.rows[t][c]
                  ELSE LET col == OnFiniteSources(c, <<t>>, 2)
                       IN  /\ col.err = "none"
                           /\ ret.out.rows[t][c] = col.out.rows[1][1]

\* C6: on a 1-D value array interpolate returns (or raises) what the strategy
\* does when built on the sources whose value is finite, in their order, with
\* all the targets, and evaluated on those finite values.
C6_OneDimensionalOnFiniteSources ==
    Interpolated(1) =>
        ret = OnFiniteSources(1, [t \in DOMAIN args.trg |-> t], 1)

\* sources 0, 1, 2 whose middle value is NaN, target 1, Idw with nnearest = 2:
\* the mean of the outer values (values 1, NaN, 3 give 2; here 0, NaN, 200 give 100)
C6_Witness ==
    /\ Interpolated(1)
    /\ args.strat.cls = "Idw" /\ args.strat.nnearest = 2
    /\ args.src = <<<<0>>, <<1>>, <<2>>>>
    /\ args.trg = <<<<1>>>>
    /\ args.vals = Array1(<<Num(0), NaN, Num(200)>>)
    /\ ret = Return(Array1(<<Num(100)>>))

----------------------------------------------------------------------------
(* Properties of interpolate_polar (SpecPolar) *)

\* bin (a, r) is masked: by the explicit mask when it masks any bin, else by
\* the mask the field carries
Masked(data, mask, a, r) ==
    IF mask.given /\ \E x \in DOMAIN mask.m : \E y \in DOMAIN mask.m[x] : mask.m[x][y]
    THEN mask.m[a][r]
    ELSE data.own.given /\ data.own.m[a][r]

Bins(data) == {b \in (DOMAIN data.rows) \X (1..Len(data.rows[1])) : TRUE}

\* the coordinates of all the bins span a triangle
Triangulable(data) ==
    LET na == Len(data.rows)
        nr == Len(data.rows[1])
    IN  \E f, g, h \in 1..(na * nr) :
            Orient(BinPoint(f, na, nr), BinPoint(g, na, nr), BinPoint(h, na, nr)) # 0

\* C4, as claimed: when some unmasked bin holds a finite value, the field that
\* interpolate_polar returns has the input's shape and no non-finite entry.
C4_FilledFieldIsFinite ==
    (/\ pc = "done"
     /\ ret.err = "none"
     /\ \E b \in Bins(args.data) :
           /\ ~Masked(args.data, args.mask, b[1], b[2])
           /\ isfinite(args.data.rows[b[1]][b[2]])) =>
        /\ Len(ret.out.rows) = Len(args.data.rows)
        /\ \A b \in Bins(args.data) :
              /\ Len(ret.out.rows[b[1]]) = Len(args.data.rows[b[1]])
              /\ isfinite(ret.out.rows[b[1]][b[2]])

----------------------------------------------------------------------------
(* Properties of the coordinate forms (SpecForms) *)

\* the number of points N of a coordinate argument: the first axis of an array,
\* the length of the flat arrays of a sequence
NumPoints(x) == IF x.type = "list" THEN Len(x.data[1]) ELSE Len(x.data)

\* ip was evaluated on a value array with exactly as many rows as there are sources
EvaluatedOnN ==
    /\ pc = "first"
    /\ Len(args.vals.rows) = NumPoints(ctor.src)

\* C11: for each class and each input form, the recorded source and target counts
\* are the numbers of points N of the source and target coordinates, and an
\* evaluation on a value array of exactly N rows passes the shape check.
C11_CountsAreNumberOfPoints ==
    /\ ip.numsources = NumPoints(ctor.src)
    /\ ip.numtargets = NumPoints(ctor.trg)
    /\ EvaluatedOnN => ret.err # "AssertionError"

============================================================================
